---- MODULE Spec2Model ----
(***************************************************************************)
(* Model of the structured-light Projector class (src/projector.py) and    *)
(* of the calls the driver (src/main.py) makes on it.                      *)
(*                                                                         *)
(* Numbers.  Pixel quantities are integers, as in the code.  The float     *)
(* quantities are modelled exactly where the code's arithmetic is          *)
(* rational: accuracy is a number of tenths, pixel_in_meters and the       *)
(* metric offset are fractions <<numerator, denominator>>.  Angles are     *)
(* integers counting steps of 15 degrees; cos and sin are read from a      *)
(* table scaled by 1000 and arctan is the table's inverse, so that         *)
(* angle arithmetic is exact and lengths are rounded to whole units.       *)
(***************************************************************************)
EXTENDS Integers, Sequences, FiniteSets, TLC

\* ------------------------------------------------------------------ bounds
MaxWidth == 8
MaxHeight == 3
MaxDistance == 2
MaxMeasured == 1

\* accuracy in [0, 1], in tenths
AccuracyTenths == 0..10
\* projector positions np.array([x, y, z]); the first is the driver's
PositionSet == {<<10, 0, 10>>, <<1, 2, 3>>}
\* configured angles, in steps of 15 degrees
AngleSet == {0, 2}

\* ------------------------------------------------------- numeric helpers
\* math.floor(math.log2(n)) for n >= 1
RECURSIVE FloorLog2(_)
FloorLog2(n) == IF n <= 1 THEN 0 ELSE 1 + FloorLog2(n \div 2)

\* 2 ** n
RECURSIVE Pow2(_)
Pow2(n) == IF n <= 0 THEN 1 ELSE 2 * Pow2(n - 1)

Abs(n) == IF n < 0 THEN 0 - n ELSE n

\* np.cos over the first quadrant, scaled by 1000, in steps of 15 degrees
CosTable == <<1000, 966, 866, 707, 500, 259, 0>>
TrigScale == CosTable[1]
Quarter == Len(CosTable) - 1

\* np.cos(k) for any whole number of steps k
Cos(k) ==
    LET m == k % (4 * Quarter)
    IN  IF m <= Quarter THEN CosTable[m + 1]
        ELSE IF m <= 2 * Quarter THEN 0 - CosTable[2 * Quarter - m + 1]
        ELSE IF m <= 3 * Quarter THEN 0 - CosTable[m - 2 * Quarter + 1]
        ELSE CosTable[4 * Quarter - m + 1]

\* np.sin(k)
Sin(k) == Cos(k - Quarter)

\* tan at the midpoints between table steps (7.5, 22.5, ... degrees), x1000
TanThresholds == <<132, 414, 767, 1303, 2414, 7596>>

\* np.arctan(q[1] / q[2]) for a fraction with q[2] > 0, to the nearest step
ArcTan(q) ==
    LET n == Cardinality({i \in 1..Len(TanThresholds) :
                             (Abs(q[1]) * TrigScale) \div q[2] >= TanThresholds[i]})
    IN  IF q[1] < 0 THEN 0 - n ELSE n

\* ------------------------------------------------------------ the encoder
\* FindImageCount: floor(floor(log2(width)) * accuracy)
FindImageCount(w, accuracy) == (FloorLog2(w) * accuracy) \div 10

\* format(i, 'b'): the binary digits of i >= 0, most significant first
RECURSIVE ToBin(_)
ToBin(i) == IF i <= 1 THEN <<i>> ELSE Append(ToBin(i \div 2), i % 2)

\* format(i, '0<w>b'): zero-padded on the left to at least w characters
RECURSIVE ZeroPad(_, _)
ZeroPad(s, w) == IF Len(s) >= w THEN s ELSE ZeroPad(<<0>> \o s, w)

\* a slice one character short: s[1:]
DropOne(s) == SubSeq(s, 2, Len(s))

\* s[2:]
DropTwo(s) == SubSeq(s, 3, Len(s))

\* bins[i] of StripeArray: format(i, '0' + str(image_count + 2) + 'b')[2:]
Bins(ic, i) == DropTwo(ZeroPad(ToBin(i), ic + 2))

\* StripeArray: cell (r, i) is the r-th character of bins[i]
StripeArray(ic, sc) ==
    [r \in 0..(ic - 1) |-> [i \in 0..(sc - 1) |-> Bins(ic, i)[r + 1]]]

\* ------------------------------------------------------------------ state
VARIABLES
    position, angle, height, width,          \* configuration
    image_count, stripe_count, stripes_order,
    strip_width, last_stripe_width,
    image_index,                             \* the render cursor
    pixel_in_meters, test_distance,          \* calibration data
    ret,                                     \* the last call and what it returned
    frame,                                   \* locals of GetPlaneEquation, if it was the last call
    emitted,                                 \* rows used by the successful renders
    calibrated                               \* whether SetTestProjection was ever called

fields == <<position, angle, height, width, image_count, stripe_count,
            stripes_order, strip_width, last_stripe_width, image_index,
            pixel_in_meters, test_distance>>
vars == <<position, angle, height, width, image_count, stripe_count,
          stripes_order, strip_width, last_stripe_width, image_index,
          pixel_in_meters, test_distance, ret, frame, emitted, calibrated>>

\* Python's None
None == <<>>
\* a constructor that starts with a test distance of one unit
DefaultTestDistanceOne == <<1>>
\* the hard-coded length of a pixel in metres, 0.000264583..., to seven places
DefaultPixelInMeters == <<2646, 10000000>>
DefaultTestDistance == None
NoFrame == [stripe_number |-> 0]

\* Projector.__init__
Init ==
    \E pos \in PositionSet, ang \in AngleSet, w \in 1..MaxWidth,
       h \in 1..MaxHeight, accuracy \in AccuracyTenths :
        LET ic == FindImageCount(w, accuracy)
            sc == Pow2(ic)
        IN  /\ position = pos
            /\ angle = ang
            /\ height = h
            /\ width = w
            /\ image_count = ic
            /\ stripe_count = sc
            /\ stripes_order = StripeArray(ic, sc)
            /\ strip_width = w \div sc
            /\ last_stripe_width = (w \div sc) + (w % sc)
            /\ image_index = 0
            /\ pixel_in_meters = DefaultPixelInMeters
            /\ test_distance = DefaultTestDistance
            /\ ret = [op |-> "__init__", arg |-> 0, status |-> "ok", value |-> None]
            /\ frame = NoFrame
            /\ emitted = <<>>
            /\ calibrated = FALSE

\* Projector.SetTestProjection(distance, width)
SetTestProjection(distance, measured) ==
    /\ test_distance' = <<distance>>
    /\ pixel_in_meters' = <<measured, width>>
    /\ ret' = [op |-> "SetTestProjection", arg |-> <<distance, measured>>,
               status |-> "ok", value |-> None]
    /\ UNCHANGED <<position, angle, height, width, image_count, stripe_count,
                   stripes_order, strip_width, last_stripe_width, image_index,
                   emitted>>
    /\ frame' = NoFrame
    /\ calibrated' = TRUE

\* ------------------------------------------------------------ the renderer
\* a row lookup that wraps around: self.stripes_order[i % n]
FetchRowWraps(order, i, n) ==
    IF n > 0 THEN <<[pos |-> i % n, row |-> order[i % n]]>> ELSE None

\* self.stripes_order[i] on an array of n rows: numpy takes -n <= i < n
\* (a negative i counts from the end) and raises IndexError otherwise (None)
FetchRow(order, i, n) ==
    IF 0 <= i /\ i < n THEN <<[pos |-> i, row |-> order[i]]>>
    ELSE IF 0 - n <= i /\ i < 0 THEN <<[pos |-> n + i, row |-> order[n + i]]>>
    ELSE None

\* np.where(row == 1)[0]
LitStripes(row) == {s \in DOMAIN row : row[s] = 1}

\* np.zeros((width, height)), then image[:, x0:x0 + strip_width] = 1 with
\* x0 = strip_width * stripe for every lit stripe (a slice is clipped to the axis)
Raster(row) ==
    [r \in 0..(width - 1) |-> [c \in 0..(height - 1) |->
        IF \E stripe \in LitStripes(row) :
               /\ strip_width * stripe <= c
               /\ c < strip_width * stripe + strip_width
        THEN 1 ELSE 0]]

\* a cursor that is never advanced
AdvanceCursorStuck(i) == i

\* self.image_index += 1
AdvanceCursor(i) == i + 1

\* Projector.GenerateImage()
GenerateImage ==
    LET got == FetchRow(stripes_order, image_index, image_count)
    IN  /\ IF Len(got) = 0
           THEN /\ ret' = [op |-> "GenerateImage", arg |-> image_index,
                           status |-> "IndexError", value |-> None]
                /\ UNCHANGED <<image_index, emitted>>
           ELSE /\ ret' = [op |-> "GenerateImage", arg |-> image_index,
                           status |-> "ok", value |-> Raster(got[1].row)]
                /\ image_index' = AdvanceCursor(image_index)
                /\ emitted' = Append(emitted, got[1].pos)
        /\ UNCHANGED <<position, angle, height, width, image_count, stripe_count,
                       stripes_order, strip_width, last_stripe_width,
                       pixel_in_meters, test_distance, calibrated>>
        /\ frame' = NoFrame

\* ------------------------------------------------------ the reconstructor
Sub(p, q) == <<p[1] - q[1], p[2] - q[2], p[3] - q[3]>>
\* np.cross
Cross(u, v) == <<u[2] * v[3] - u[3] * v[2],
                 u[3] * v[1] - u[1] * v[3],
                 u[1] * v[2] - u[2] * v[1]>>
\* np.dot
Dot(u, v) == u[1] * v[1] + u[2] * v[2] + u[3] * v[3]

\* width of the stripe: the last one carries the remainder
StripeWidth(stripe_number) ==
    IF stripe_number = stripe_count - 1 THEN last_stripe_width ELSE strip_width

\* x coordinate (in pixels) of the middle pixel in a stripe
MiddleStripePixel(stripe_number, w) ==
    (stripe_number - 1) * strip_width + w \div 2

\* the argument of np.cos and np.sin: self.angle - delta_angel
ScreenAngle(ang, delta_angel) == ang - delta_angel

\* d taken from an edge vector instead of a point: np.dot(cp, v1)
PlaneOffsetFromEdge(cp, point1, point2, point3) == Dot(cp, Sub(point3, point1))

\* d of the plane: np.dot(cp, point3)
PlaneOffset(cp, point1, point2, point3) == Dot(cp, point3)

\* the stripe's width stored in self.width instead of the local width
GetPlaneEquationWritesWidth ==
    /\ width' = last_stripe_width
    /\ UNCHANGED <<position, angle, height, image_count, stripe_count,
                   stripes_order, strip_width, last_stripe_width, image_index,
                   pixel_in_meters, test_distance>>

\* GetPlaneEquation assigns no attribute of self
GetPlaneEquationWrites == UNCHANGED fields

\* Projector.GetPlaneEquation(stripe_number)
GetPlaneEquation(stripe_number) ==
    LET w == StripeWidth(stripe_number)
        middle_stripe_pixel == MiddleStripePixel(stripe_number, w)
        central_image_pixel == width \div 2
        delta_pixel == middle_stripe_pixel - central_image_pixel
        delta_m == <<delta_pixel * pixel_in_meters[1], pixel_in_meters[2]>>
    IN  /\ GetPlaneEquationWrites
        /\ UNCHANGED <<emitted, calibrated>>
        /\ IF test_distance = None
           THEN \* delta_pixel / None raises TypeError
                /\ ret' = [op |-> "GetPlaneEquation", arg |-> stripe_number,
                           status |-> "TypeError", value |-> None]
                /\ frame' = [stripe_number |-> stripe_number,
                             middle_stripe_pixel |-> middle_stripe_pixel,
                             central_image_pixel |-> central_image_pixel,
                             delta_pixel |-> delta_pixel]
           ELSE LET dist == test_distance[1]
                    deviation == ArcTan(<<delta_m[1], delta_m[2] * dist>>)
                    delta_angel == angle - deviation
                    theta == ScreenAngle(angle, delta_angel)
                    x == (dist * Cos(theta)) \div TrigScale
                    y == position[2]
                    z == (dist * Sin(theta)) \div TrigScale
                    point1 == position
                    point2 == <<x, y, z>>
                    point3 == <<x, y + 1, z>>
                    v1 == Sub(point3, point1)
                    v2 == Sub(point2, point1)
                    cp == Cross(v1, v2)
                    d == PlaneOffset(cp, point1, point2, point3)
                IN  /\ ret' = [op |-> "GetPlaneEquation", arg |-> stripe_number,
                               status |-> "ok", value |-> <<cp[1], cp[2], cp[3], d>>]
                    /\ frame' = [stripe_number |-> stripe_number,
                                 middle_stripe_pixel |-> middle_stripe_pixel,
                                 central_image_pixel |-> central_image_pixel,
                                 delta_pixel |-> delta_pixel,
                                 deviation |-> deviation,
                                 theta |-> theta,
                                 point1 |-> point1,
                                 point2 |-> point2,
                                 point3 |-> point3]

\* the stripe numbers a caller passes: the valid ones and one outside on each side
StripeArgs == (0 - 1)..stripe_count

Next ==
    \/ \E distance \in 1..MaxDistance, measured \in 1..MaxMeasured :
           SetTestProjection(distance, measured)
    \/ GenerateImage
    \/ \E stripe_number \in StripeArgs : GetPlaneEquation(stripe_number)

Spec == Init /\ [][Next]_vars

\* ------------------------------------------------------------- properties
IsRender == ret.op = "GenerateImage"
IsPlane == ret.op = "GetPlaneEquation"
ValidStripes == 0..(stripe_count - 1)

\* the number a column spells, top row = most significant bit
RECURSIVE ColumnValue(_, _)
ColumnValue(j, rows) ==
    IF rows = 0 THEN 0
    ELSE 2 * ColumnValue(j, rows - 1) + stripes_order[rows - 1][j]

C2_RasterCoversLitStripes ==
    (IsRender /\ ret.status = "ok") =>
        LET row == stripes_order[ret.arg]
            WidthOf(j) == IF j = stripe_count - 1 THEN last_stripe_width
                          ELSE strip_width
        IN  /\ DOMAIN ret.value = 0..(width - 1)
            /\ \A x \in 0..(width - 1) :
                   /\ DOMAIN ret.value[x] = 0..(height - 1)
                   /\ \A y \in 0..(height - 1) :
                          (ret.value[x][y] = 1) <=>
                              \E j \in ValidStripes :
                                  /\ row[j] = 1
                                  /\ j * strip_width <= x
                                  /\ x < j * strip_width + WidthOf(j)

\* C3: the k-th successful render uses matrix row k - 1 and shows its pattern,
\* and each successful render advances the cursor by exactly one, so no row
\* is skipped or emitted twice.
C3_RendersFollowRows ==
    /\ Len(emitted) = image_index
    /\ \A k \in 1..Len(emitted) : emitted[k] = k - 1
    /\ (IsRender /\ ret.status = "ok") =>
           /\ image_index = ret.arg + 1
           /\ \A j \in ValidStripes, r \in 0..(width - 1), c \in 0..(height - 1) :
                  (j * strip_width <= c /\ c < j * strip_width + strip_width)
                      => ret.value[r][c] = stripes_order[Len(emitted) - 1][j]

C3_Witness ==
    /\ IsRender /\ ret.status = "ok"
    /\ image_index = 3
    /\ test_distance # None

\* C4 (as stated): a render requested with the cursor at or past image_count
\* fails with OutOfSequence.
C4_ExhaustedRenderIsOutOfSequence ==
    (IsRender /\ ret.arg >= image_count) => ret.status = "OutOfSequence"

\* C4 (amended): a render requested with the cursor at or past image_count
\* fails with IndexError, returns no image and leaves the cursor unchanged;
\* the cursor stays within 0..image_count and at most image_count renders
\* succeed.
C4_ExhaustedRenderRaisesIndexError ==
    /\ 0 <= image_index /\ image_index <= image_count
    /\ Len(emitted) <= image_count
    /\ IsRender =>
           /\ ret.arg >= image_count =>
                  /\ ret.status = "IndexError"
                  /\ ret.value = None
                  /\ image_index = ret.arg
           /\ ret.arg < image_count => ret.status = "ok"

C4_Witness ==
    /\ IsRender /\ ret.status = "IndexError"
    /\ image_count = 2 /\ image_index = 2

\* C5: for a calibrated projector and a valid stripe, (a, b, c) is the cross
\* product of the edges from the optical center to P3 = (x, y + 1, z) and to
\* P2 = (x, y, z), and the optical center, P2 and P3 all satisfy
\* a*x + b*y + c*z = d.
C5_PlaneThroughThreePoints ==
    (IsPlane /\ ret.status = "ok" /\ ret.arg \in ValidStripes) =>
        LET P1 == position
            P2 == frame.point2
            P3 == frame.point3
            e2 == <<P2[1] - P1[1], P2[2] - P1[2], P2[3] - P1[3]>>
            e3 == <<P3[1] - P1[1], P3[2] - P1[2], P3[3] - P1[3]>>
            a == ret.value[1]
            b == ret.value[2]
            c == ret.value[3]
            d == ret.value[4]
            On(P) == a * P[1] + b * P[2] + c * P[3] = d
        IN  /\ P2[2] = position[2]
            /\ P3 = <<P2[1], P2[2] + 1, P2[3]>>
            /\ a = e3[2] * e2[3] - e3[3] * e2[2]
            /\ b = e3[3] * e2[1] - e3[1] * e2[3]
            /\ c = e3[1] * e2[2] - e3[2] * e2[1]
            /\ On(P1) /\ On(P2) /\ On(P3)

C5_Witness ==
    /\ IsPlane /\ ret.status = "ok" /\ ret.arg \in ValidStripes
    /\ ret.value[1] # 0 /\ ret.value[3] # 0 /\ ret.value[4] # 0

C6_UncalibratedFails ==
    IsPlane =>
        /\ ~calibrated =>
               /\ ret.status = "TypeError"
               /\ ret.value = None
        /\ ret.status = "ok" => (calibrated /\ test_distance # None)

C7_OutsideStripeIsIndexOutOfRange ==
    (IsPlane /\ test_distance # None /\ ret.arg \notin ValidStripes) =>
        /\ ret.status = "IndexOutOfRange"
        /\ ret.value = None

\* C8: a plane query, successful or failing, changes no attribute of the
\* projector (cursor, calibration, matrix, widths, configuration) nor the
\* rows rendered so far, and repeated with the same stripe number it returns
\* the same result.
C8_PlaneQueryIsPure ==
    [][ret'.op = "GetPlaneEquation" =>
          /\ UNCHANGED fields
          /\ UNCHANGED <<emitted, calibrated>>
          /\ (IsPlane /\ ret.arg = ret'.arg) => ret' = ret]_vars

C8_Witness ==
    /\ IsPlane /\ ret.status = "ok"
    /\ 0 < image_index /\ image_index < image_count

\* C9: for a valid stripe j the midpoint pixel is j*strip_width +
\* width_of(j) \div 2, which lies in stripe j's own column range and is not
\* negative, and the signed offset is the midpoint minus width \div 2.
C9_MidpointIsZeroBased ==
    (IsPlane /\ ret.arg \in ValidStripes) =>
        LET j == ret.arg
            WidthOf == IF j = stripe_count - 1 THEN last_stripe_width
                       ELSE strip_width
        IN  /\ frame.middle_stripe_pixel = j * strip_width + WidthOf \div 2
            /\ frame.middle_stripe_pixel >= 0
            /\ j * strip_width <= frame.middle_stripe_pixel
            /\ frame.middle_stripe_pixel < j * strip_width + WidthOf
            /\ frame.delta_pixel = frame.middle_stripe_pixel - width \div 2

\* C10: the angle whose cosine and sine give the screen point is the
\* configured angle combined with the deviation, angle - arctan(offset /
\* test_distance), not the bare deviation.
C10_ScreenAngleIsCorrected ==
    (IsPlane /\ ret.status = "ok") =>
        frame.theta = angle - frame.deviation
====
